---- MODULE Spec2Model ----
(***************************************************************************)
(* The feedback relay engine of tgbot-commons: commons/feedback.py         *)
(* (add_feedback_handlers: routing index, rate limiter, hashtag tickets,   *)
(* user_to_bot, admin_to_bot) and commons/banned_users_store.py.           *)
(*                                                                         *)
(* Redis keys are modelled as functions whose DOMAIN is the set of keys    *)
(* that exist; values are what the code stores (str(int) as a digit        *)
(* sequence, to_store() as a field list).  Time is discrete: Tick ages the *)
(* rate-limit keys by one unit.                                            *)
(***************************************************************************)
EXTENDS Integers, Sequences, FiniteSets, TLC

\* ---------------------------------------------------------------- bounds
MaxUsers == 2
MaxMsgId == 4
MaxCap == 2
MaxThreshold == 2
WindowLen == 2
SoftBanLen == 3
MaxThreads == 2
MaxBanLog == 3
NumCategories == 2

Users == 1..MaxUsers
MsgIds == 1..MaxMsgId
Threads == 1..MaxThreads
Categories == 1..NumCategories
HistCap == MaxCap + MaxThreshold + 2

\* ------------------------------------------------------- program constants
None == 0
AdminChat == 90
OperatorChat == 91
\* the source's tag is the Russian word for "unanswered"
UNANSWERED_HASHTAG == "#unanswered"
SUPPORTED_CONTENT_TYPES == {"text", "sticker", "document", "photo"}
ContentTypes == SUPPORTED_CONTENT_TYPES \cup {"video"}
CategoryNames == <<"one", "two", "three">>

VARIABLES
    cfg,              \* arguments of add_feedback_handlers
    origin,           \* redis "<prefix>-origin-chat-for-<msg id>"
    related,          \* redis list "<prefix>-forwarded-from-<chat id>"
    msglog,           \* redis list "<prefix>-log_with-<chat id>"
    hashtag_for_msg,  \* redis "<prefix>-hashtag-msg-for-fwd-<msg id>"
    recent_hashtag,   \* redis "<prefix>-recent-hashtag-for-<user id>"
    counter,          \* redis "<prefix>-counter-for-user-<id>": value and ttl
    violations,       \* redis "<prefix>-rate-limit-violations-<id>": value and ttl
    category,         \* redis "<prefix>-category-of-<user id>"
    banLog,           \* redis list "<prefix>-banned"
    banned_users,     \* BannedUsersStore._banned_users
    threads,          \* position and locals of each concurrent ban_user call
    okBans,           \* history: users whose ban_user call appended and returned
    nextId,           \* transport: id of the next message posted to the admin chat
    adminChat,        \* transport: the admin chat's messages
    hist,             \* history: admitMessage calls of each user since its counters were absent
    window,           \* history: the messages counted in the present life of each user's counter
    routes,           \* history: the conversation each admin-chat message was relayed from
    ev                \* the last handler invocation: whose message, the path taken, whether it raised

storeVars == <<origin, related, msglog, hashtag_for_msg, recent_hashtag, category>>
rateVars == <<counter, violations>>
banVars == <<banLog, banned_users, threads, okBans>>
transportVars == <<nextId, adminChat, routes>>
vars == <<cfg, origin, related, msglog, hashtag_for_msg, recent_hashtag, counter,
          violations, category, banLog, banned_users, threads, okBans, nextId,
          adminChat, hist, window, routes, ev>>

\* ------------------------------------------------------------ conversions
RECURSIVE str(_)
str(n) == IF n < 10 THEN <<n>> ELSE str(n \div 10) \o <<n % 10>>

RECURSIVE int(_)
int(s) == IF Len(s) = 1 THEN s[1] ELSE 10 * int(SubSeq(s, 1, Len(s) - 1)) + s[Len(s)]

IntList(l) == [i \in 1..Len(l) |-> int(l[i])]

IntSet(l) == {int(l[i]) : i \in 1..Len(l)}

RECURSIVE Join(_)
Join(tags) ==
    IF tags = <<>> THEN ""
    ELSE IF Len(tags) = 1 THEN tags[1]
    ELSE tags[1] \o " " \o Join(Tail(tags))

to_store(d) == << <<"message_id", d.message_id>>, <<"hashtags", d.hashtags>> >>

from_store(dump) == [message_id |-> dump[1][2], hashtags |-> dump[2][2]]

Put(f, k, v) == (k :> v) @@ f

Absent == [n |-> 0, ttl |-> 0]

\* ------------------------------------------------------------ rate limiter
AntiSpamConfig(cap, threshold) ==
    [throttle_after_messages |-> cap,
     throttle_duration_min |-> WindowLen,
     soft_ban_after_throttle_violations |-> threshold,
     soft_ban_duration_days |-> SoftBanLen]

\* redis.incr followed by redis.expire on the same key: the expiry is set anew
IncrExpire(key, duration) == [n |-> key.n + 1, ttl |-> duration]

SoftBannedNever(c, v, u) == FALSE

SoftBanned(c, v, u) ==
    v[u].n > 0 /\ v[u].n >= c.anti_spam.soft_ban_after_throttle_violations

WithinCapOffByOne(c, count) == count < c.anti_spam.throttle_after_messages

WithinCap(c, count) == count <= c.anti_spam.throttle_after_messages

\* a variant that counts the message before looking at the violations
accept_message_count_first(c, cnt, v, u) ==
    LET cnt2 == [cnt EXCEPT ![u] = IncrExpire(@, c.anti_spam.throttle_duration_min)]
    IN  IF SoftBanned(c, v, u) THEN [res |-> "LATER", counter |-> cnt2, violations |-> v]
        ELSE IF WithinCap(c, cnt2[u].n)
        THEN [res |-> "NOW", counter |-> cnt2, violations |-> v]
        ELSE [res |-> "SOON", counter |-> cnt2,
              violations |-> [v EXCEPT ![u] =
                  IncrExpire(@, c.anti_spam.soft_ban_duration_days)]]

\* accept_message_from: the result and the two counters after the call
accept_message_from(c, cnt, v, u) ==
    IF ~c.has_anti_spam THEN [res |-> "NOW", counter |-> cnt, violations |-> v]
    ELSE IF SoftBanned(c, v, u) THEN [res |-> "LATER", counter |-> cnt, violations |-> v]
    ELSE LET cnt2 == [cnt EXCEPT ![u] = IncrExpire(@, c.anti_spam.throttle_duration_min)]
         IN  IF WithinCap(c, cnt2[u].n)
             THEN [res |-> "NOW", counter |-> cnt2, violations |-> v]
             ELSE [res |-> "SOON", counter |-> cnt2,
                   violations |-> [v EXCEPT ![u] =
                       IncrExpire(@, c.anti_spam.soft_ban_duration_days)]]

Age(key) == IF key.ttl <= 1 THEN Absent ELSE [key EXCEPT !.ttl = @ - 1]

FreshHist == [n |-> 0, soon |-> 0, dirty |-> FALSE]

NoneCounted == [counted |-> 0, passed |-> 0, relayed |-> 0]

\* the history of user u after one unit of time has passed
HistAfterTick(u) ==
    LET c2 == Age(counter[u])
        v2 == Age(violations[u])
    IN  IF hist[u].n = 0 \/ (c2 = Absent /\ v2 = Absent) THEN FreshHist
        ELSE IF (counter[u] # Absent /\ c2 = Absent /\ ~SoftBanned(cfg, violations, u))
                \/ (violations[u] # Absent /\ v2 = Absent)
        THEN [hist[u] EXCEPT !.dirty = TRUE]
        ELSE hist[u]

\* one unit of time passes: redis expires the keys whose ttl has run out
Tick ==
    /\ \E u \in Users : counter[u] # Absent \/ violations[u] # Absent
    /\ counter' = [u \in Users |-> Age(counter[u])]
    /\ violations' = [u \in Users |-> Age(violations[u])]
    /\ hist' = [u \in Users |-> HistAfterTick(u)]
    /\ UNCHANGED <<cfg, storeVars, banVars, transportVars, window, ev>>

NoCalls == <<>>

Event(op, user, result, raised) ==
    [op |-> op, user |-> user, result |-> result, raised |-> raised]

Min(a, b) == IF a < b THEN a ELSE b

\* admitMessage called on its own (the rate limiter's contract)
AdmitMessage(u) ==
    LET r == accept_message_from(cfg, counter, violations, u)
    IN  /\ cfg.has_anti_spam
        /\ counter' = r.counter
        /\ violations' = r.violations
        /\ hist' = [hist EXCEPT ![u] =
                        [n |-> Min(@.n + 1, HistCap),
                         soon |-> IF r.res = "SOON" THEN Min(@.soon + 1, HistCap) ELSE @.soon,
                         dirty |-> @.dirty]]
        /\ ev' = Event("admit", u, r.res, FALSE)
        /\ UNCHANGED <<cfg, storeVars, banVars, transportVars, window>>

\* --------------------------------------------------------------- ban store
is_banned(set, u) == u \in set

\* what redis.rpush leaves in the list: "ok" and "lost_reply" append, "fail" does not
Rpush(list, v, outcome) == IF outcome = "fail" THEN list ELSE Append(list, v)

RpushOutcomes == {"ok", "fail", "lost_reply"}

\* ban_user after rpush: line 23 when it returned, line 25 when it raised
AfterRpushSwallow(outcome) == "add"

AfterRpush(outcome) == IF outcome = "ok" THEN "add" ELSE "lrange"

Idle == [pc |-> "idle", user |-> None, snap |-> {}]

\* a thread enters ban_user(u); the ban log is kept within MaxBanLog entries
BanCall(t, u) ==
    /\ threads[t].pc = "idle"
    /\ Len(banLog) + Cardinality({x \in Threads : threads[x].pc = "rpush"}) < MaxBanLog
    /\ threads' = [threads EXCEPT ![t] = [pc |-> "rpush", user |-> u, snap |-> {}]]
    /\ UNCHANGED <<cfg, storeVars, rateVars, banLog, banned_users, okBans,
                   transportVars, hist, window, ev>>

\* line 22: self.redis.rpush(self.banned_users_key, str(user_id))
BanRpush(t) ==
    /\ threads[t].pc = "rpush"
    /\ \E outcome \in RpushOutcomes :
        /\ banLog' = Rpush(banLog, str(threads[t].user), outcome)
        /\ threads' = [threads EXCEPT ![t].pc = AfterRpush(outcome)]
    /\ UNCHANGED <<cfg, storeVars, rateVars, banned_users, okBans, transportVars, hist, window, ev>>

\* line 23: self._banned_users.add(user_id), and ban_user returns
BanAdd(t) ==
    /\ threads[t].pc = "add"
    /\ banned_users' = banned_users \cup {threads[t].user}
    /\ okBans' = okBans \cup {threads[t].user}
    /\ threads' = [threads EXCEPT ![t] = Idle]
    /\ ev' = Event("ban", threads[t].user, "added", FALSE)
    /\ UNCHANGED <<cfg, storeVars, rateVars, banLog, transportVars, hist, window>>

\* a variant whose failed resync read leaves the set empty
BanLrangeClearing(t) ==
    /\ threads[t].pc = "lrange"
    /\ \/ /\ threads' = [threads EXCEPT ![t].pc = "assign", ![t].snap = IntSet(banLog)]
          /\ UNCHANGED <<ev, banned_users>>
       \/ /\ threads' = [threads EXCEPT ![t] = Idle]
          /\ banned_users' = {}
          /\ ev' = Event("ban", threads[t].user, "raised", TRUE)
    /\ UNCHANGED <<cfg, storeVars, rateVars, banLog, okBans, transportVars, hist, window>>

\* line 16: the lrange of _update_stored_banned_users; when it raises, ban_user raises
BanLrange(t) ==
    /\ threads[t].pc = "lrange"
    /\ \/ /\ threads' = [threads EXCEPT ![t].pc = "assign", ![t].snap = IntSet(banLog)]
          /\ UNCHANGED ev
       \/ /\ threads' = [threads EXCEPT ![t] = Idle]
          /\ ev' = Event("ban", threads[t].user, "raised", TRUE)
    /\ UNCHANGED <<cfg, storeVars, rateVars, banLog, banned_users, okBans,
                   transportVars, hist, window>>

\* line 17: self._banned_users = banned_users, and ban_user returns
BanAssign(t) ==
    /\ threads[t].pc = "assign"
    /\ banned_users' = threads[t].snap
    /\ threads' = [threads EXCEPT ![t] = Idle]
    /\ ev' = Event("ban", threads[t].user, "resynced", FALSE)
    /\ UNCHANGED <<cfg, storeVars, rateVars, banLog, okBans, transportVars, hist, window>>

\* ban_user run to its end without interleaving: the store afterwards, whether the
\* id was added (line 23) and whether the resync raised (line 25, then 16)
ban_user(s, u, rp, lr) ==
    LET log2 == Rpush(s.banLog, str(u), rp)
    IN  IF AfterRpush(rp) = "add"
        THEN [s |-> [s EXCEPT !.banLog = log2, !.banned_users = @ \cup {u}],
              added |-> TRUE, raised |-> FALSE]
        ELSE IF lr
        THEN [s |-> [s EXCEPT !.banLog = log2, !.banned_users = IntSet(log2)],
              added |-> FALSE, raised |-> FALSE]
        ELSE [s |-> [s EXCEPT !.banLog = log2], added |-> FALSE, raised |-> TRUE]

\* ------------------------------------------------------------------- state
\* the program state a handler reads and writes, as one record
Cur ==
    [origin |-> origin, related |-> related, msglog |-> msglog,
     hashtag_for_msg |-> hashtag_for_msg, recent_hashtag |-> recent_hashtag,
     category |-> category, counter |-> counter, violations |-> violations,
     banLog |-> banLog, banned_users |-> banned_users,
     nextId |-> nextId, adminChat |-> adminChat]

Range(q) == {q[i] : i \in 1..Len(q)}

\* --------------------------------------------------------------- transport
Call(api, chat, msg, new, note, text, ok) ==
    [api |-> api, chat |-> chat, msg |-> msg, new |-> new, note |-> note,
     text |-> text, ok |-> ok]

Live(s, id) == id \in DOMAIN s.adminChat /\ ~s.adminChat[id].deleted

\* a message appears in the admin chat under the next id
Post(s, text) ==
    [s EXCEPT !.adminChat = Put(@, s.nextId, [text |-> text, deleted |-> FALSE]),
              !.nextId = @ + 1]

Deleted(s, id) == [s EXCEPT !.adminChat[id].deleted = TRUE]

Edited(s, id, text) == [s EXCEPT !.adminChat[id].text = text]

\* ----------------------------------------------------------- routing index
save_message_related_to_user(s, user_chat_id, message_id) ==
    [s EXCEPT !.related[user_chat_id] = Append(@, str(message_id))]

save_to_message_log(s, origin_chat_id, message_id) ==
    [s EXCEPT !.msglog[origin_chat_id] = Append(@, str(message_id))]

save_origin_chat_swapped(s, forwarded_message_id, origin_chat_id) ==
    [s EXCEPT !.origin = Put(@, origin_chat_id, str(forwarded_message_id))]

save_origin_chat_for_message(s, forwarded_message_id, origin_chat_id) ==
    [s EXCEPT !.origin = Put(@, forwarded_message_id, str(origin_chat_id))]

\* a variant that leaves the message log out
save_forwarded_without_log(s, origin_chat_id, forwarded_id) ==
    save_message_related_to_user(
        save_origin_chat_for_message(s, forwarded_id, origin_chat_id),
        origin_chat_id, forwarded_id)

save_forwarded_message(s, origin_chat_id, forwarded_id) ==
    save_to_message_log(
        save_message_related_to_user(
            save_origin_chat_for_message(s, forwarded_id, origin_chat_id),
            origin_chat_id, forwarded_id),
        origin_chat_id, forwarded_id)

get_messages_related_to_user(s, user_id) == IntList(s.related[user_id])

get_message_log(s, origin_chat_id) == IntList(s.msglog[origin_chat_id])

\* int(redis.get(key)); None when the key is absent or the read raises
get_origin_chat(s, forwarded_msg_id) ==
    IF forwarded_msg_id \in DOMAIN s.origin THEN int(s.origin[forwarded_msg_id]) ELSE None

\* ---------------------------------------------------------- hashtag tickets
HashtagMessageData(message_id, hashtags) ==
    [message_id |-> message_id, hashtags |-> hashtags]

save_hashtag_msg_data_for_message(s, forwarded_msg_id, data) ==
    [s EXCEPT !.hashtag_for_msg = Put(@, forwarded_msg_id, to_store(data))]

\* <<>> for None, <<data>> otherwise
get_hashtag_msg_data_for_message(s, forwarded_msg_id) ==
    IF forwarded_msg_id \in DOMAIN s.hashtag_for_msg
    THEN <<from_store(s.hashtag_for_msg[forwarded_msg_id])>> ELSE <<>>

save_recent_hashtag_message_for_user(s, user_id, data) ==
    [s EXCEPT !.recent_hashtag = Put(@, user_id, to_store(data))]

get_recent_hashatag_message_for_user(s, user_id) ==
    IF user_id \in DOMAIN s.recent_hashtag
    THEN <<from_store(s.recent_hashtag[user_id])>> ELSE <<>>

\* CategoryStore.get_user_category: the category id, None when unset or unknown
get_user_category(s, user_id) ==
    IF user_id \in DOMAIN s.category /\ int(s.category[user_id]) \in Categories
    THEN int(s.category[user_id]) ELSE None

\* a variant that cuts the list at the first occurrence
RemoveFrom(q, x) ==
    LET i == CHOOSE i \in 1..Len(q) : q[i] = x /\ \A j \in 1..(i - 1) : q[j] # x
    IN  SubSeq(q, 1, i - 1)

\* list.remove(x): the first occurrence goes
RemoveFirst(q, x) ==
    LET i == CHOOSE i \in 1..Len(q) : q[i] = x /\ \A j \in 1..(i - 1) : q[j] # x
    IN  SubSeq(q, 1, i - 1) \o SubSeq(q, i + 1, Len(q))

\* ------------------------------------------------------------- user_to_bot
Done(s, result, raised, calls) ==
    [s |-> s, result |-> result, raised |-> raised, calls |-> calls]

is_banned_never(set, u) == FALSE

sender_is_banned(set, u) == is_banned(set, u)

\* a variant that looks at the recent ticket only
send_new_when_none_recent(recent, category_hashtag) == recent = <<>>

\* lines 242-244: send a new hashtag message?
send_new_hashtag_message(recent, category_hashtag) ==
    \/ recent = <<>>
    \/ /\ category_hashtag # <<>>
       /\ category_hashtag[1] \notin Range(recent[1].hashtags)

\* lines 226-259: the message was admitted (AcceptMessage.NOW)
relay_admitted(s, u, failAt) ==
    LET cat == IF cfg.hashtag_messages_in_admin_chat /\ cfg.has_category_store
               THEN get_user_category(s, u) ELSE None
    IN
    IF /\ cfg.hashtag_messages_in_admin_chat /\ cfg.has_category_store
       /\ cat = None /\ cfg.force_category_selection
    THEN Done(s, "needs_category", failAt = 1,
              <<Call("reply_to", u, None, None, "select_category", "", failAt # 1)>>)
    ELSE
    LET category_hashtag == IF cat = None THEN <<>> ELSE <<"#" \o CategoryNames[cat]>>
        recent == IF cfg.hashtag_messages_in_admin_chat
                  THEN get_recent_hashatag_message_for_user(s, u) ELSE <<>>
        newTicket ==
            /\ cfg.hashtag_messages_in_admin_chat
            /\ send_new_hashtag_message(recent, category_hashtag)
        hashtags == <<UNANSWERED_HASHTAG>> \o category_hashtag
    IN
    IF newTicket /\ failAt = 1
    THEN Done(s, "raised", TRUE,
              <<Call("send_message", AdminChat, None, None, "", Join(hashtags), FALSE)>>)
    ELSE
    LET data == IF newTicket THEN <<HashtagMessageData(s.nextId, hashtags)>> ELSE recent
        s2 == IF newTicket
              THEN save_recent_hashtag_message_for_user(
                       save_message_related_to_user(Post(s, Join(hashtags)), u, s.nextId),
                       u, data[1])
              ELSE s
        calls2 == IF newTicket
                  THEN <<Call("send_message", AdminChat, None, s.nextId, "", Join(hashtags), TRUE)>>
                  ELSE <<>>
        nfwd == Len(calls2) + 1
    IN
    IF failAt = nfwd
    THEN Done(s2, "raised", TRUE,
              calls2 \o <<Call("forward_message", AdminChat, None, None, "", "", FALSE)>>)
    ELSE
    LET fid == s2.nextId
        s3 == save_forwarded_message(Post(s2, ""), u, fid)
        s4 == IF cfg.hashtag_messages_in_admin_chat
              THEN save_hashtag_msg_data_for_message(s3, fid, data[1]) ELSE s3
        calls3 == calls2 \o <<Call("forward_message", AdminChat, None, fid, "", "", TRUE)>>
    IN
    IF ~cfg.has_forwarded_to_admin_ok THEN Done(s4, "relayed", FALSE, calls3)
    ELSE Done(s4, "relayed", failAt = nfwd + 1,
              calls3 \o <<Call("reply_to", u, None, None, "forwarded_to_admin_ok", "",
                               failAt # nfwd + 1)>>)

\* user_to_bot(message) for a message of user u; the failAt-th transport call of
\* the invocation raises (0: none does).  raised: the exception leaves the handler
user_to_bot(s, u, failAt) ==
    IF sender_is_banned(s.banned_users, u) THEN Done(s, "banned", FALSE, NoCalls)
    ELSE
    LET acc == accept_message_from(cfg, s.counter, s.violations, u)
        s1 == [s EXCEPT !.counter = acc.counter, !.violations = acc.violations]
    IN  IF acc.res = "LATER" THEN Done(s1, "later", FALSE, NoCalls)
        ELSE IF acc.res = "SOON"
        THEN Done(s1, "soon", failAt = 1,
                  <<Call("reply_to", u, None, None, "throttling", "", failAt # 1)>>)
        ELSE relay_admitted(s1, u, failAt)

\* ------------------------------------------------------------ admin_to_bot
CopyApi(content_type) ==
    IF content_type = "text" THEN "send_message"
    ELSE IF content_type = "sticker" THEN "send_sticker"
    ELSE IF content_type = "document" THEN "send_document"
    ELSE "send_photo"

copy_message_to_sender(chat_id, content_type, ok) ==
    Call(CopyApi(content_type), OperatorChat, None, None, "", "", ok)

\* copy_message_to_chat: the send call that carries the content to chat_id
copy_message_to_chat(chat_id, content_type, ok) ==
    Call(CopyApi(content_type), chat_id, None, None, "", "", ok)

\* lines 345-347: the error is reported to the operator as call number i
Reported(s, result, calls, i, F) ==
    Done(s, result, i \in F,
         calls \o <<Call("reply_to", AdminChat, None, None, "somethings_wrong", "", i \notin F)>>)

\* a variant whose first failing delete ends the loop
RECURSIVE delete_all_until_failure(_, _, _, _, _)
delete_all_until_failure(s, ids, k, F, calls) ==
    IF k > Len(ids) THEN [s |-> s, calls |-> calls]
    ELSE LET ok == k \notin F /\ Live(s, ids[k])
             calls2 == Append(calls, Call("delete_message", AdminChat, ids[k], None, "", "", ok))
         IN  IF ok THEN delete_all_until_failure(Deleted(s, ids[k]), ids, k + 1, F, calls2)
             ELSE [s |-> s, calls |-> calls2]

\* lines 316-320: delete ids[k..], the k-th delete being call number k
RECURSIVE delete_all(_, _, _, _, _)
delete_all(s, ids, k, F, calls) ==
    IF k > Len(ids) THEN [s |-> s, calls |-> calls]
    ELSE LET ok == k \notin F /\ Live(s, ids[k])
         IN  delete_all(IF ok THEN Deleted(s, ids[k]) ELSE s, ids, k + 1, F,
                        Append(calls, Call("delete_message", AdminChat, ids[k], None, "", "", ok)))

\* a variant whose first failing forward ends the replay
RECURSIVE replay_log_until_failure(_, _, _, _, _, _)
replay_log_until_failure(s, ids, k, F, origin_chat_id, calls) ==
    IF k > Len(ids) THEN [s |-> s, calls |-> calls]
    ELSE LET ok == k \notin F /\ Live(s, ids[k])
             toAdmin == cfg.send_log_to_admin_chat
             send_log_to == IF toAdmin THEN AdminChat ELSE OperatorChat
             new == IF ok /\ toAdmin THEN s.nextId ELSE None
             s2 == IF ok /\ toAdmin
                   THEN save_origin_chat_for_message(Post(s, ""), s.nextId, origin_chat_id)
                   ELSE s
             calls2 == Append(calls, Call("forward_message", send_log_to, ids[k], new, "", "", ok))
         IN  IF ok THEN replay_log_until_failure(s2, ids, k + 1, F, origin_chat_id, calls2)
             ELSE [s |-> s, calls |-> calls2]

\* lines 327-338: forward ids[k..] to send_log_to, the k-th forward being call number k
RECURSIVE replay_log(_, _, _, _, _, _)
replay_log(s, ids, k, F, origin_chat_id, calls) ==
    IF k > Len(ids) THEN [s |-> s, calls |-> calls]
    ELSE LET ok == k \notin F /\ Live(s, ids[k])
             toAdmin == cfg.send_log_to_admin_chat
             send_log_to == IF toAdmin THEN AdminChat ELSE OperatorChat
             new == IF ok /\ toAdmin THEN s.nextId ELSE None
             s2 == IF ok /\ toAdmin
                   THEN save_origin_chat_for_message(Post(s, ""), s.nextId, origin_chat_id)
                   ELSE s
         IN  replay_log(s2, ids, k + 1, F, origin_chat_id,
                        Append(calls, Call("forward_message", send_log_to, ids[k], new, "", "", ok)))

\* a variant that persists the tags only when the transport call returned
remove_unanswered_unless_failed(s, message_id, i, F) ==
    LET found == get_hashtag_msg_data_for_message(s, message_id)
    IN  IF found = <<>> \/ UNANSWERED_HASHTAG \notin Range(found[1].hashtags)
        THEN [s |-> s, calls |-> NoCalls]
        ELSE
        LET tags == RemoveFirst(found[1].hashtags, UNANSWERED_HASHTAG)
            data == HashtagMessageData(found[1].message_id, tags)
            tid == data.message_id
            ok == /\ i \notin F /\ Live(s, tid)
                  /\ (tags # <<>> => s.adminChat[tid].text # Join(tags))
            s2 == IF ~ok THEN s
                  ELSE IF tags # <<>> THEN Edited(s, tid, Join(tags)) ELSE Deleted(s, tid)
            call == IF tags # <<>>
                    THEN Call("edit_message_text", AdminChat, tid, None, "", Join(tags), ok)
                    ELSE Call("delete_message", AdminChat, tid, None, "", "", ok)
        IN  [s |-> IF ok THEN save_hashtag_msg_data_for_message(s2, message_id, data) ELSE s2,
             calls |-> <<call>>]

\* a variant that edits the ticket whatever tags are left
remove_unanswered_always_edit(s, message_id, i, F) ==
    LET found == get_hashtag_msg_data_for_message(s, message_id)
    IN  IF found = <<>> \/ UNANSWERED_HASHTAG \notin Range(found[1].hashtags)
        THEN [s |-> s, calls |-> NoCalls]
        ELSE
        LET tags == RemoveFirst(found[1].hashtags, UNANSWERED_HASHTAG)
            data == HashtagMessageData(found[1].message_id, tags)
            tid == data.message_id
            ok == i \notin F /\ Live(s, tid) /\ s.adminChat[tid].text # Join(tags)
            s2 == IF ok THEN Edited(s, tid, Join(tags)) ELSE s
            call == Call("edit_message_text", AdminChat, tid, None, "", Join(tags), ok)
        IN  [s |-> save_hashtag_msg_data_for_message(s2, message_id, data), calls |-> <<call>>]

\* remove_unanswered_hashtag, its transport call being call number i
remove_unanswered_hashtag(s, message_id, i, F) ==
    LET found == get_hashtag_msg_data_for_message(s, message_id)
    IN  IF found = <<>> \/ UNANSWERED_HASHTAG \notin Range(found[1].hashtags)
        THEN [s |-> s, calls |-> NoCalls]
        ELSE
        LET tags == RemoveFirst(found[1].hashtags, UNANSWERED_HASHTAG)
            data == HashtagMessageData(found[1].message_id, tags)
            tid == data.message_id
            ok == /\ i \notin F /\ Live(s, tid)
                  /\ (tags # <<>> => s.adminChat[tid].text # Join(tags))
            s2 == IF ~ok THEN s
                  ELSE IF tags # <<>> THEN Edited(s, tid, Join(tags)) ELSE Deleted(s, tid)
            call == IF tags # <<>>
                    THEN Call("edit_message_text", AdminChat, tid, None, "", Join(tags), ok)
                    ELSE Call("delete_message", AdminChat, tid, None, "", "", ok)
        IN  [s |-> save_hashtag_msg_data_for_message(s2, message_id, data), calls |-> <<call>>]

\* a variant that marks the ticket answered before it copies the reply
mark_before_copy(s, mid, reply_to, kind, F, origin_chat_id) ==
    LET h == IF cfg.hashtag_messages_in_admin_chat
             THEN remove_unanswered_hashtag(s, reply_to, 3, {})
             ELSE [s |-> s, calls |-> NoCalls]
        c1 == h.calls \o <<copy_message_to_chat(origin_chat_id, kind, 1 \notin F)>>
    IN  IF 1 \in F THEN Reported(h.s, "copy_failed", c1, 2, F)
        ELSE
        LET s2 == save_to_message_log(h.s, origin_chat_id, mid)
            c2 == Append(c1, Call("reply_to", AdminChat, None, None, "copied_to_user_ok", "",
                                  2 \notin F))
        IN  IF 2 \in F THEN Reported(s2, "ack_failed", c2, 3, F)
            ELSE Done(s2, "replied", FALSE, c2)

\* lines 339-344: an ordinary reply is copied to the user, logged, acknowledged
\* and its ticket marked answered; the calls are numbered 1, 2, 3
copy_reply_to_user(s, mid, reply_to, kind, F, origin_chat_id) ==
    LET c1 == <<copy_message_to_chat(origin_chat_id, kind, 1 \notin F)>>
    IN  IF 1 \in F THEN Reported(s, "copy_failed", c1, 2, F)
        ELSE
        LET s2 == save_to_message_log(s, origin_chat_id, mid)
            c2 == Append(c1, Call("reply_to", AdminChat, None, None, "copied_to_user_ok", "",
                                  2 \notin F))
        IN  IF 2 \in F THEN Reported(s2, "ack_failed", c2, 3, F)
            ELSE IF ~cfg.hashtag_messages_in_admin_chat THEN Done(s2, "replied", FALSE, c2)
            ELSE LET h == remove_unanswered_hashtag(s2, reply_to, 3, F)
                 IN  Done(h.s, "replied", FALSE, c2 \o h.calls)

\* admin_to_bot(message): message has id mid, replies to reply_to and has the
\* given kind ("/ban", "/log" or a content type); the transport calls whose
\* number is in F raise; getFails: the redis read of get_origin_chat raises;
\* rp, lr: the outcomes of ban_user's rpush and of its resync read
admin_to_bot(s, mid, reply_to, kind, F, getFails, rp, lr) ==
    LET origin_chat_id == IF getFails THEN None ELSE get_origin_chat(s, reply_to)
    IN
    IF origin_chat_id = None THEN Done(s, "ignored", FALSE, NoCalls)
    ELSE IF kind \notin SUPPORTED_CONTENT_TYPES \cup {"/ban", "/log"}
    THEN LET c1 == <<Call("reply_to", AdminChat, None, None, "unsupported_type", "", 1 \notin F)>>
         IN  IF 1 \in F THEN Reported(s, "unsupported", c1, 2, F)
             ELSE Done(s, "unsupported", FALSE, c1)
    ELSE IF kind = "/ban"
    THEN LET b == ban_user(s, origin_chat_id, rp, lr)
         IN  IF b.raised THEN Reported(b.s, "ban_failed", NoCalls, 1, F)
             ELSE LET ids == get_messages_related_to_user(b.s, origin_chat_id) \o <<mid>>
                      d == delete_all(b.s, ids, 1, F, NoCalls)
                  IN  Done(d.s, IF b.added THEN "banned" ELSE "ban_resynced", FALSE, d.calls)
    ELSE IF kind = "/log"
    THEN LET log_message_ids == get_message_log(s, origin_chat_id)
         IN  IF log_message_ids = <<>>
             THEN LET c1 == <<Call("reply_to", AdminChat, None, None,
                                   "message_log_unavailable", "", 1 \notin F)>>
                  IN  IF 1 \in F THEN Reported(s, "log_unavailable", c1, 2, F)
                      ELSE Done(s, "log_unavailable", FALSE, c1)
             ELSE LET r == replay_log(s, log_message_ids, 1, F, origin_chat_id, NoCalls)
                  IN  Done(r.s, "log", FALSE, r.calls)
    ELSE copy_reply_to_user(s, mid, reply_to, kind, F, origin_chat_id)

\* ------------------------------------------------------------ the handlers
\* the admin-chat messages a handler's forward calls created, with their origin
Relayed(calls, user) ==
    LET made == {i \in 1..Len(calls) :
                    /\ calls[i].api = "forward_message" /\ calls[i].ok
                    /\ calls[i].chat = AdminChat}
    IN  [m \in {calls[i].new : i \in made} |-> user]

Commit(r) ==
    /\ origin' = r.s.origin
    /\ related' = r.s.related
    /\ msglog' = r.s.msglog
    /\ hashtag_for_msg' = r.s.hashtag_for_msg
    /\ recent_hashtag' = r.s.recent_hashtag
    /\ category' = r.s.category
    /\ counter' = r.s.counter
    /\ violations' = r.s.violations
    /\ banLog' = r.s.banLog
    /\ banned_users' = r.s.banned_users
    /\ nextId' = r.s.nextId
    /\ adminChat' = r.s.adminChat

\* a user's private message reaches user_to_bot
UserToBot(u, failAt) ==
    LET r == user_to_bot(Cur, u, failAt)
    IN  /\ r.s.nextId <= MaxMsgId + 1
        /\ r.s.counter[u].n <= HistCap
        /\ Commit(r)
        /\ routes' = [routes EXCEPT !.rec = Relayed(r.calls, u) @@ @]
        /\ ev' = Event("user", u, r.result, r.raised)
        /\ UNCHANGED <<cfg, threads, okBans, hist, window>>

AdminKinds == {"/ban", "/log"} \cup ContentTypes

\* the transport calls an admin_to_bot invocation can make
MaxCalls(reply_to, kind) ==
    LET c == get_origin_chat(Cur, reply_to)
    IN  IF c = None THEN 0
        ELSE IF kind = "/ban" THEN Len(related[c]) + 1
        ELSE IF kind = "/log" THEN (IF msglog[c] = <<>> THEN 2 ELSE Len(msglog[c]))
        ELSE IF kind \in SUPPORTED_CONTENT_TYPES THEN 3
        ELSE 2

\* an admin's reply to a live admin-chat message reaches admin_to_bot
AdminToBot(reply_to, kind, F, getFails, rp, lr) ==
    LET mid == nextId
        r == admin_to_bot(Post(Cur, ""), mid, reply_to, kind, F, getFails, rp, lr)
        c == get_origin_chat(Cur, reply_to)
    IN  /\ Live(Cur, reply_to)
        /\ r.s.nextId <= MaxMsgId + 1
        /\ Len(r.s.banLog) <= MaxBanLog
        /\ Commit(r)
        /\ routes' = [routes EXCEPT !.rec = Relayed(r.calls, c) @@ @]
        /\ okBans' = IF r.result = "banned" THEN okBans \cup {c} ELSE okBans
        /\ ev' = Event("admin", c, r.result, r.raised)
        /\ UNCHANGED <<cfg, threads, hist, window>>

\* the inputs of an admin_to_bot invocation that its path reads: which transport
\* calls raise, whether the read of get_origin_chat raises, and for /ban the
\* outcome of the rpush and of the resync read
AdminInputs(reply_to, kind) ==
    LET resolves == get_origin_chat(Cur, reply_to) # None
        In(Fs, g, rps, lrs) == [F : Fs, getFails : {g}, rp : rps, lr : lrs]
        AnyOf(n) == SUBSET (1..n)
    IN  IF ~resolves THEN In({{}}, FALSE, {"ok"}, {TRUE})
        ELSE In({{}}, TRUE, {"ok"}, {TRUE}) \cup
             (IF kind = "/ban"
              THEN In(AnyOf(MaxCalls(reply_to, kind)), FALSE, {"ok", "fail"}, {TRUE})
                   \cup In(AnyOf(1), FALSE, {"fail"}, {FALSE})
              ELSE In(AnyOf(MaxCalls(reply_to, kind)), FALSE, {"ok"}, {TRUE}))

\* category_select_btn_pressed: save_category_for_user(user_id, cat_id)
SelectCategory(u, cat_id) ==
    /\ cfg.has_category_store
    /\ category' = Put(category, u, str(cat_id))
    /\ UNCHANGED <<cfg, origin, related, msglog, hashtag_for_msg, recent_hashtag,
                   rateVars, banVars, transportVars, hist, window, ev>>

\* redis drops the oldest origin key: its LARGE_EXPIRATION_TIME has passed
ExpireOriginKey ==
    /\ DOMAIN origin # {}
    /\ LET m == CHOOSE m \in DOMAIN origin : \A k \in DOMAIN origin : m <= k
       IN  /\ origin' = [k \in DOMAIN origin \ {m} |-> origin[k]]
           /\ routes' = [routes EXCEPT !.expired = @ \cup {m}]
    /\ UNCHANGED <<cfg, related, msglog, hashtag_for_msg, recent_hashtag, category,
                   rateVars, banVars, nextId, adminChat, hist, window, ev>>

\* redis drops a user's recent-ticket key: GROUPED_MESSAGES_MAX_SEPARATION_TIME has passed
ExpireRecentHashtag(u) ==
    /\ u \in DOMAIN recent_hashtag
    /\ recent_hashtag' = [k \in DOMAIN recent_hashtag \ {u} |-> recent_hashtag[k]]
    /\ UNCHANGED <<cfg, origin, related, msglog, hashtag_for_msg, category,
                   rateVars, banVars, transportVars, hist, window, ev>>

\* ------------------------------------------------------------ initial state
Config(hashtags, log_to_admin, cat_store, force, ack, spam, cap, threshold) ==
    [hashtag_messages_in_admin_chat |-> hashtags,
     send_log_to_admin_chat |-> log_to_admin,
     has_category_store |-> cat_store,
     force_category_selection |-> force,
     has_forwarded_to_admin_ok |-> ack,
     has_anti_spam |-> spam,
     anti_spam |-> AntiSpamConfig(cap, threshold)]

\* the state right after add_feedback_handlers, over an empty redis except for
\* the ban log, which BannedUsersStore.__init__ has loaded
InitState(c, log) ==
    /\ cfg = c
    /\ origin = <<>>
    /\ related = [u \in Users |-> <<>>]
    /\ msglog = [u \in Users |-> <<>>]
    /\ hashtag_for_msg = <<>>
    /\ recent_hashtag = <<>>
    /\ counter = [u \in Users |-> Absent]
    /\ violations = [u \in Users |-> Absent]
    /\ category = <<>>
    /\ banLog = log
    /\ banned_users = IntSet(log)
    /\ threads = [t \in Threads |-> Idle]
    /\ okBans = {}
    /\ nextId = 1
    /\ adminChat = <<>>
    /\ hist = [u \in Users |-> FreshHist]
    /\ window = [u \in Users |-> NoneCounted]
    /\ routes = [rec |-> <<>>, expired |-> {}]
    /\ ev = Event("init", None, "", FALSE)

\* --------------------------------------------------- the rate limiter alone
InitRate ==
    \E cap \in 1..MaxCap, threshold \in 1..MaxThreshold :
        InitState(Config(FALSE, TRUE, FALSE, FALSE, TRUE, TRUE, cap, threshold), <<>>)

NextRate ==
    \/ \E u \in Users : AdmitMessage(u)
    \/ Tick

SpecRate == InitRate /\ [][NextRate]_vars

\* ------------------------------------------------------ the ban store alone
InitBan ==
    \E log \in {<<>>, <<str(1)>>} :
        InitState(Config(FALSE, TRUE, FALSE, FALSE, TRUE, FALSE, 1, 1), log)

NextBan ==
    \E t \in Threads :
        \/ \E u \in Users : BanCall(t, u)
        \/ BanRpush(t)
        \/ BanAdd(t)
        \/ BanLrange(t)
        \/ BanAssign(t)

SpecBan == InitBan /\ [][NextBan]_vars

\* ---------------------------------------------------- the relay, sequential
\* admin and user messages handled one at a time, without rate limiting and
\* without a category store
Init ==
    \E hashtags \in BOOLEAN, log_to_admin \in BOOLEAN :
        InitState(Config(hashtags, log_to_admin, FALSE, FALSE, TRUE, FALSE, 1, 1), <<>>)

Next ==
    \/ \E u \in Users, failAt \in 0..3 : UserToBot(u, failAt)
    \/ \E reply_to \in MsgIds, kind \in AdminKinds :
         \E i \in AdminInputs(reply_to, kind) :
            AdminToBot(reply_to, kind, i.F, i.getFails, i.rp, i.lr)
    \/ ExpireOriginKey
    \/ \E u \in Users : ExpireRecentHashtag(u)

Spec == Init /\ [][Next]_vars

\* ------------------------------------------------- the intake of user messages
\* user messages only, with rate limiting and a ban log that an earlier run of
\* the bot may have left
InitIntake ==
    \E hashtags \in BOOLEAN, cap \in 1..MaxCap, log \in {<<>>, <<str(1)>>} :
        InitState(Config(hashtags, TRUE, FALSE, FALSE, TRUE, TRUE, cap, 1), log)

NextIntake ==
    \/ \E u \in Users, failAt \in 0..3 : UserToBot(u, failAt)
    \/ \E u \in Users : ExpireRecentHashtag(u)
    \/ Tick

SpecIntake == InitIntake /\ [][NextIntake]_vars

\* ------------------------------------------------------- hashtag tickets
\* user messages, category selection and ordinary admin replies with hashtag
\* tickets and a category store
InitTickets ==
    \E force \in BOOLEAN :
        InitState(Config(TRUE, TRUE, TRUE, force, TRUE, FALSE, 1, 1), <<>>)

NextTickets ==
    \/ \E u \in Users, failAt \in 0..3 : UserToBot(u, failAt)
    \/ \E u \in Users, cat_id \in Categories : SelectCategory(u, cat_id)
    \/ \E reply_to \in MsgIds, kind \in {"text"} :
         \E i \in AdminInputs(reply_to, kind) :
            AdminToBot(reply_to, kind, i.F, i.getFails, i.rp, i.lr)
    \/ \E u \in Users : ExpireRecentHashtag(u)

SpecTickets == InitTickets /\ [][NextTickets]_vars

\* ----------------------------------------------------- category selection
\* user messages and category selection with a category store whose selection
\* is forced, with and without hashtag tickets
InitCategory ==
    \E hashtags \in BOOLEAN :
        InitState(Config(hashtags, TRUE, TRUE, TRUE, TRUE, FALSE, 1, 1), <<>>)

NextCategory ==
    \/ \E u \in Users, failAt \in 0..3 : UserToBot(u, failAt)
    \/ \E u \in Users, cat_id \in Categories : SelectCategory(u, cat_id)
    \/ \E u \in Users : ExpireRecentHashtag(u)

SpecCategory == InitCategory /\ [][NextCategory]_vars

\* ------------------------------------------- hashtag tickets, no call fails
\* user messages, category selection and ordinary admin replies with hashtag
\* tickets, with and without a category store, every transport call and every
\* redis command going through
InitReliable ==
    \E cat_store \in BOOLEAN :
        InitState(Config(TRUE, TRUE, cat_store, FALSE, TRUE, FALSE, 1, 1), <<>>)

NextReliable ==
    \/ \E u \in Users : UserToBot(u, 0)
    \/ \E u \in Users, cat_id \in Categories : SelectCategory(u, cat_id)
    \/ \E reply_to \in MsgIds : AdminToBot(reply_to, "text", {}, FALSE, "ok", TRUE)
    \/ \E u \in Users : ExpireRecentHashtag(u)

SpecReliable == InitReliable /\ [][NextReliable]_vars

\* --------------------------------------- user messages handled concurrently
\* user_to_bot run by several threads at once with rate limiting: every redis
\* command of accept_message_from is a step of its own, the relay that follows
\* an admitted message is one step, and time passes between any two steps

Cap == cfg.anti_spam.throttle_after_messages
Threshold == cfg.anti_spam.soft_ban_after_throttle_violations

\* a key that redis holds without an expiry stays as it is, any other key ages
AgeKey(key) == IF key.n > 0 /\ key.ttl = 0 THEN key ELSE Age(key)

\* a variant whose reply is the value before the increment
incr_reply_before(key) == IF key.n = 0 THEN 1 ELSE key.n

\* the reply of redis.incr: the value after the increment
incr_reply(key) == key.n + 1

\* redis.expire: a key that exists gets the expiry, an absent key stays absent
Expire(key, duration) == IF key.n > 0 THEN [key EXCEPT !.ttl = duration] ELSE key

InFlight(u, pcs) == {x \in Threads : threads[x].user = u /\ threads[x].pc \in pcs}

\* the conversations are busy one at a time: no handler of another user is running
\* and no counter of another user is held
OthersQuiet(u) ==
    /\ \A x \in Threads : threads[x].pc # "idle" => threads[x].user = u
    /\ \A v \in Users \ {u} : counter[v] = Absent /\ violations[v] = Absent

\* line 211: a thread enters user_to_bot with a message of user u, who is not banned
HandleUserMessage(t, u) ==
    /\ threads[t].pc = "idle"
    /\ OthersQuiet(u)
    /\ ~sender_is_banned(banned_users, u)
    /\ counter[u].n + Cardinality(InFlight(u, {"get_violations", "incr"})) < Cap + MaxThreads
    /\ threads' = [threads EXCEPT ![t] =
                       [pc |-> "get_violations", user |-> u,
                        snap |-> [count |-> 0, live |-> FALSE]]]
    /\ UNCHANGED <<cfg, storeVars, rateVars, banLog, banned_users, okBans,
                   transportVars, hist, window, ev>>

\* lines 149-151: the violations are read, and a soft-banned sender is dropped
GetViolations(t) ==
    /\ threads[t].pc = "get_violations"
    /\ IF SoftBanned(cfg, violations, threads[t].user)
       THEN /\ threads' = [threads EXCEPT ![t] = Idle]
            /\ ev' = Event("user", threads[t].user, "later", FALSE)
       ELSE /\ threads' = [threads EXCEPT ![t].pc = "incr"]
            /\ UNCHANGED ev
    /\ UNCHANGED <<cfg, storeVars, rateVars, banLog, banned_users, okBans,
                   transportVars, hist, window>>

\* line 154: current_count = redis.incr(counter_key)
IncrCounter(t) ==
    LET u == threads[t].user
        current_count == incr_reply(counter[u])
    IN  /\ threads[t].pc = "incr"
        /\ counter' = [counter EXCEPT ![u].n = @ + 1]
        /\ threads' = [threads EXCEPT ![t].pc = "expire",
                                      ![t].snap = [count |-> current_count, live |-> TRUE]]
        /\ window' = [window EXCEPT ![u].counted = @ + 1,
                                    ![u].passed = IF WithinCap(cfg, current_count)
                                                  THEN @ + 1 ELSE @]
        /\ UNCHANGED <<cfg, storeVars, violations, banLog, banned_users, okBans,
                       transportVars, hist, ev>>

\* lines 155-156: redis.expire(counter_key, ...), then the count is compared
ExpireCounter(t) ==
    LET u == threads[t].user
    IN  /\ threads[t].pc = "expire"
        /\ counter' = [counter EXCEPT ![u] = Expire(@, cfg.anti_spam.throttle_duration_min)]
        /\ threads' = [threads EXCEPT ![t].pc =
                           IF WithinCap(cfg, threads[t].snap.count)
                           THEN "relay" ELSE "incr_violations"]
        /\ UNCHANGED <<cfg, storeVars, violations, banLog, banned_users, okBans,
                       transportVars, hist, window, ev>>

\* line 159: redis.incr(violations_key)
IncrViolations(t) ==
    /\ threads[t].pc = "incr_violations"
    /\ violations' = [violations EXCEPT ![threads[t].user].n = @ + 1]
    /\ threads' = [threads EXCEPT ![t].pc = "expire_violations"]
    /\ UNCHANGED <<cfg, storeVars, counter, banLog, banned_users, okBans,
                   transportVars, hist, window, ev>>

\* lines 160-161 and 222-224: redis.expire(violations_key, ...), SOON is returned
\* and the throttling notice is sent (ok: the notice went through)
ExpireViolations(t, ok) ==
    LET u == threads[t].user
    IN  /\ threads[t].pc = "expire_violations"
        /\ violations' = [violations EXCEPT ![u] =
                              Expire(@, cfg.anti_spam.soft_ban_duration_days)]
        /\ threads' = [threads EXCEPT ![t] = Idle]
        /\ ev' = Event("user", u, "soon", ~ok)
        /\ UNCHANGED <<cfg, storeVars, counter, banLog, banned_users, okBans,
                       transportVars, hist, window>>

\* lines 226-259: NOW was returned and the message goes through the relay
RelayAdmitted(t, failAt) ==
    LET u == threads[t].user
        r == relay_admitted(Cur, u, failAt)
    IN  /\ threads[t].pc = "relay"
        /\ r.s.nextId <= MaxMsgId + 1
        /\ Commit(r)
        /\ routes' = [routes EXCEPT !.rec = Relayed(r.calls, u) @@ @]
        /\ threads' = [threads EXCEPT ![t] = Idle]
        /\ window' = [window EXCEPT ![u].relayed =
                          IF threads[t].snap.live /\ Relayed(r.calls, u) # <<>>
                          THEN @ + 1 ELSE @]
        /\ ev' = Event("user", u, r.result, r.raised)
        /\ UNCHANGED <<cfg, okBans, hist>>

\* one unit of time passes while handlers are running: redis expires the keys
\* whose ttl has run out, which ends the life of a counter
Elapse ==
    LET ended == {u \in Users : counter[u] # Absent /\ AgeKey(counter[u]) = Absent}
    IN  /\ \E u \in Users : counter[u].ttl > 0 \/ violations[u].ttl > 0
        /\ counter' = [u \in Users |-> AgeKey(counter[u])]
        /\ violations' = [u \in Users |-> AgeKey(violations[u])]
        /\ window' = [u \in Users |-> IF u \in ended THEN NoneCounted ELSE window[u]]
        /\ threads' = [t \in Threads |->
                          IF threads[t].user \in ended
                          THEN [threads[t] EXCEPT !.snap.live = FALSE] ELSE threads[t]]
        /\ UNCHANGED <<cfg, storeVars, banLog, banned_users, okBans, transportVars,
                       hist, ev>>

\* with a category store its selection is forced and nobody has selected: an
\* admitted message is then answered with the request to select and not relayed
InitThrottle ==
    \E cap \in 1..MaxCap, cat_store \in BOOLEAN :
        InitState(Config(cat_store, TRUE, cat_store, TRUE, FALSE, TRUE, cap, 1), <<>>)

NextThrottle ==
    \/ \E t \in Threads :
        \/ \E u \in Users : HandleUserMessage(t, u)
        \/ GetViolations(t)
        \/ IncrCounter(t)
        \/ ExpireCounter(t)
        \/ IncrViolations(t)
        \/ \E ok \in BOOLEAN : ExpireViolations(t, ok)
        \/ \E failAt \in 0..1 : RelayAdmitted(t, failAt)
    \/ Elapse

SpecThrottle == InitThrottle /\ [][NextThrottle]_vars

\* ------------------------------------------ tickets opened concurrently
\* user_to_bot run by several threads at once with hashtag tickets, without rate
\* limiting and without a category store: the read of the recent-ticket record,
\* the post of a new ticket, the writes of its records, the forward and the
\* writes of the relayed message are steps of their own.  Every call goes
\* through and no recent-ticket record expires.
NoLocals == [recent |-> <<>>, data |-> <<>>, fid |-> None]

\* lines 211-239: the sender is not banned, the message is admitted and no
\* category tag is requested
HandleAdmitted(t, u) ==
    /\ threads[t].pc = "idle"
    /\ ~sender_is_banned(banned_users, u)
    /\ threads' = [threads EXCEPT ![t] = [pc |-> "read_recent", user |-> u, snap |-> NoLocals]]
    /\ UNCHANGED <<cfg, storeVars, rateVars, banLog, banned_users, okBans,
                   transportVars, hist, window, ev>>

\* lines 241-244: the recent-ticket record is read and the decision is taken
ReadRecentTicket(t) ==
    LET recent == get_recent_hashatag_message_for_user(Cur, threads[t].user)
    IN  /\ threads[t].pc = "read_recent"
        /\ threads' = [threads EXCEPT
                           ![t].pc = IF send_new_hashtag_message(recent, <<>>)
                                     THEN "send_ticket" ELSE "forward",
                           ![t].snap = [recent |-> recent, data |-> recent, fid |-> None]]
        /\ UNCHANGED <<cfg, storeVars, rateVars, banLog, banned_users, okBans,
                       transportVars, hist, window, ev>>

\* lines 245-248: hashtag_msg = bot.send_message(admin_chat_id, " ".join(hashtags))
SendTicket(t) ==
    LET hashtags == <<UNANSWERED_HASHTAG>>
        s2 == Post(Cur, Join(hashtags))
    IN  /\ threads[t].pc = "send_ticket"
        /\ s2.nextId <= MaxMsgId + 1
        /\ nextId' = s2.nextId
        /\ adminChat' = s2.adminChat
        /\ threads' = [threads EXCEPT
                           ![t].pc = "save_ticket",
                           ![t].snap.data = <<HashtagMessageData(nextId, hashtags)>>]
        /\ UNCHANGED <<cfg, storeVars, rateVars, banLog, banned_users, okBans,
                       routes, hist, window, ev>>

\* lines 250-252: the ticket joins the related list and becomes the recent one
SaveTicket(t) ==
    LET u == threads[t].user
        data == threads[t].snap.data[1]
        s2 == save_recent_hashtag_message_for_user(
                  save_message_related_to_user(Cur, u, data.message_id), u, data)
    IN  /\ threads[t].pc = "save_ticket"
        /\ related' = s2.related
        /\ recent_hashtag' = s2.recent_hashtag
        /\ threads' = [threads EXCEPT ![t].pc = "forward"]
        /\ UNCHANGED <<cfg, origin, msglog, hashtag_for_msg, category, rateVars,
                       banLog, banned_users, okBans, transportVars, hist, window, ev>>

\* line 253: forwarded_msg = bot.forward_message(...)
ForwardMessage(t) ==
    LET s2 == Post(Cur, "")
    IN  /\ threads[t].pc = "forward"
        /\ s2.nextId <= MaxMsgId + 1
        /\ nextId' = s2.nextId
        /\ adminChat' = s2.adminChat
        /\ routes' = [routes EXCEPT !.rec = (nextId :> threads[t].user) @@ @]
        /\ threads' = [threads EXCEPT ![t].pc = "save_forwarded", ![t].snap.fid = nextId]
        /\ UNCHANGED <<cfg, storeVars, rateVars, banLog, banned_users, okBans,
                       hist, window, ev>>

\* lines 254-259: the records of the relayed message are written, the ticket in
\* hand is bound to it and the sender gets the acknowledgment
SaveForwarded(t) ==
    LET u == threads[t].user
        fid == threads[t].snap.fid
        s2 == save_hashtag_msg_data_for_message(
                  save_forwarded_message(Cur, u, fid), fid, threads[t].snap.data[1])
    IN  /\ threads[t].pc = "save_forwarded"
        /\ origin' = s2.origin
        /\ related' = s2.related
        /\ msglog' = s2.msglog
        /\ hashtag_for_msg' = s2.hashtag_for_msg
        /\ threads' = [threads EXCEPT ![t] = Idle]
        /\ ev' = Event("user", u, "relayed", FALSE)
        /\ UNCHANGED <<cfg, recent_hashtag, category, rateVars, banLog, banned_users,
                       okBans, transportVars, hist, window>>

InitOpening ==
    InitState(Config(TRUE, TRUE, FALSE, FALSE, TRUE, FALSE, 1, 1), <<>>)

NextOpening ==
    \E t \in Threads :
        \/ \E u \in Users : HandleAdmitted(t, u)
        \/ ReadRecentTicket(t)
        \/ SendTicket(t)
        \/ SaveTicket(t)
        \/ ForwardMessage(t)
        \/ SaveForwarded(t)

SpecOpening == InitOpening /\ [][NextOpening]_vars

\* ================================================================= claims

\* the last event is the k-th admitMessage call of u since u's counters were
\* absent, and no counter of u has expired in between
KthCall(u, k) ==
    /\ ev.op = "admit" /\ ev.user = u
    /\ ~hist[u].dirty /\ hist[u].n = k /\ k > 0

HistRange == 1..HistCap

\* C3 as stated: within one throttle window the first cap calls return NOW, call
\* cap+1 returns SOON, SOON is returned exactly once, and every later call within
\* the violation TTL returns LATER.
C3_Original ==
    \A u \in Users : \A k \in HistRange :
        KthCall(u, k) =>
            /\ (k <= Cap => ev.result = "NOW")
            /\ (k = Cap + 1 => ev.result = "SOON")
            /\ (k >= Cap + 1 => hist[u].soon = 1)
            /\ (k > Cap + 1 => ev.result = "LATER")

\* C3 amended: the first cap calls return NOW, call cap+1 returns SOON, SOON is
\* returned once per call until the violation counter reaches the threshold (for
\* calls cap+1..cap+threshold: exactly once when the threshold is 1), and every
\* later call within the violation TTL returns LATER.
C3_WarnUntilThreshold ==
    \A u \in Users : \A k \in HistRange :
        KthCall(u, k) =>
            /\ (k <= Cap => ev.result = "NOW" /\ hist[u].soon = 0)
            /\ (k = Cap + 1 => ev.result = "SOON")
            /\ (k >= Cap + 1 => hist[u].soon = Min(k - Cap, Threshold))
            /\ (Threshold = 1 /\ k >= Cap + 1 => hist[u].soon = 1)
            /\ (k > Cap + Threshold => ev.result = "LATER")

C3_Witness ==
    \E u \in Users :
        /\ KthCall(u, Cap + 2) /\ Threshold = 1 /\ Cap = MaxCap
        /\ ev.result = "LATER" /\ hist[u].soon = 1

\* C4: admitMessage returns LATER iff the violation counter exists and is >= the
\* threshold; otherwise the window counter grows by exactly 1 and the result is
\* NOW iff the new count is <= cap, else the violation counter grows by exactly 1
\* and the result is SOON.
C4_DecisionStep(u) ==
    LET softBanned == violations[u] # Absent /\ violations[u].n >= Threshold
    IN  /\ (ev'.result = "LATER") <=> softBanned
        /\ ~softBanned =>
            /\ counter'[u].n = counter[u].n + 1
            /\ (ev'.result = "NOW") <=> (counter'[u].n <= Cap)
            /\ ev'.result = "NOW" => violations'[u] = violations[u]
            /\ ev'.result # "NOW" =>
                /\ ev'.result = "SOON"
                /\ violations'[u].n = violations[u].n + 1

\* C4, consequently: with no counter expiry the calls 1..cap return NOW, the
\* calls cap+1..cap+T return SOON and call cap+T+1 is the first to return LATER.
C4_Sequence ==
    \A u \in Users : \A k \in HistRange :
        KthCall(u, k) =>
            ev.result = (IF k <= Cap THEN "NOW"
                         ELSE IF k <= Cap + Threshold THEN "SOON" ELSE "LATER")

\* C4: the decision of every admitMessage call and the sequence it gives
C4_AdmitDecides ==
    /\ [][\A u \in Users : AdmitMessage(u) => C4_DecisionStep(u)]_vars
    /\ []C4_Sequence

C4_Witness ==
    \E u \in Users :
        /\ Threshold = 2 /\ KthCall(u, Cap + Threshold + 1)
        /\ ev.result = "LATER" /\ hist[u].soon = 2

\* C5: once the violation counter has reached the threshold, every admitMessage
\* call returns LATER and leaves value and expiry of both counters unchanged, and
\* the violation counter keeps its value and is never prolonged: it only ages
\* until its TTL runs out, whatever happens to the window counter.
C5_SoftBanStep(u) ==
    (violations[u] # Absent /\ violations[u].n >= Threshold) =>
        /\ AdmitMessage(u) =>
            /\ ev'.result = "LATER"
            /\ counter' = counter
            /\ violations' = violations
        /\ \/ violations'[u] = Absent /\ violations[u].ttl <= 1
           \/ /\ violations'[u].n = violations[u].n
              /\ violations'[u].ttl <= violations[u].ttl
              /\ violations'[u].ttl >= 1

C5_SoftBanHolds == [][\A u \in Users : C5_SoftBanStep(u)]_vars

\* a call rejected during the soft ban after the window counter has expired
C5_Witness ==
    \E u \in Users :
        /\ ev.op = "admit" /\ ev.user = u /\ ev.result = "LATER"
        /\ counter[u] = Absent
        /\ violations[u].n >= Threshold /\ violations[u].ttl = 1

\* C6 as stated: the window counter's expiry is set by the first increment of a
\* window only; a later increment in the same window does not postpone it.
C6_ExpiryNotPostponed ==
    [][\A u \in Users :
        (AdmitMessage(u) /\ counter[u] # Absent /\ counter'[u].n = counter[u].n + 1)
            => counter'[u].ttl = counter[u].ttl]_vars

\* C8 as stated: after a ban(c) call that appended and returned, isBanned(c) is
\* true and stays true through any later and any concurrent ban calls.
C8_BanSticks == \A c \in okBans : is_banned(banned_users, c)

\* C10: the in-memory banned set is a subset of the ids in the durable ban log.
C10_CacheNotAhead == banned_users \subseteq IntSet(banLog)

\* a resync has left the cache strictly behind the log
C10_Witness ==
    /\ ev.op = "ban" /\ ev.result = "resynced"
    /\ banned_users # IntSet(banLog)
    /\ banned_users # {}

\* ---------------------------------------------------------- relay claims
\* the admin's message as admin_to_bot receives it: posted in the admin chat
\* under the next id
Arrived == Post(Cur, "")

Handled(reply_to, kind, i) ==
    admin_to_bot(Arrived, nextId, reply_to, kind, i.F, i.getFails, i.rp, i.lr)

UserChatCalls(calls) == {k \in 1..Len(calls) : calls[k].chat \in Users}

\* C1: an admin reply with supported content other than /ban and /log whose
\* replied-to message resolves to conversation C makes its first transport call
\* the copy of that content to C (delivered unless the transport raises) and
\* makes no call to any other conversation; a reply whose replied-to message does
\* not resolve makes no transport call and leaves message logs, tickets, ban
\* state and every other store key as they were.
C1_ReplyRouted ==
    \A reply_to \in MsgIds, kind \in AdminKinds :
        Live(Cur, reply_to) =>
            \A i \in AdminInputs(reply_to, kind) :
                LET r == Handled(reply_to, kind, i)
                    C == IF i.getFails THEN None ELSE get_origin_chat(Cur, reply_to)
                IN  /\ C = None =>
                        /\ r.calls = NoCalls /\ ~r.raised
                        /\ r.s = Arrived
                    /\ (C # None /\ kind \in SUPPORTED_CONTENT_TYPES) =>
                        /\ Len(r.calls) >= 1
                        /\ r.calls[1].api = CopyApi(kind)
                        /\ r.calls[1].chat = C
                        /\ r.calls[1].ok = (1 \notin i.F)
                        /\ UserChatCalls(r.calls) = {1}
                        /\ \A k \in 1..Len(r.calls) : r.calls[k].chat \in {C, AdminChat}

\* a reply was copied to its conversation while both users had relayed messages
C1_Witness ==
    /\ ev.op = "admin" /\ ev.result = "replied" /\ ~ev.raised
    /\ \A u \in Users : \E m \in DOMAIN origin : int(origin[m]) = u
    /\ msglog[ev.user] # <<>>

\* C2: every admin-chat message M that a forward of conversation C's message
\* created (a relay recorded by save_forwarded_message, or a /log replay copy)
\* and whose key has not expired resolves to C; every M never recorded resolves
\* to None; and no step changes the conversation of a stored mapping.
C2_Resolves ==
    \A M \in MsgIds \cup {nextId} :
        IF M \in DOMAIN routes.rec
        THEN M \notin routes.expired => get_origin_chat(Cur, M) = routes.rec[M]
        ELSE get_origin_chat(Cur, M) = None

C2_NeverChanged ==
    \A M \in DOMAIN origin : M \in DOMAIN origin' => int(origin'[M]) = int(origin[M])

C2_ExactInverse == []C2_Resolves /\ [][C2_NeverChanged]_vars

\* mappings of both users, one of them expired, and a message never recorded
C2_Witness ==
    /\ \A u \in Users : \E m \in DOMAIN routes.rec : routes.rec[m] = u
    /\ routes.expired # {}
    /\ DOMAIN origin # {}
    /\ \E m \in DOMAIN adminChat : m \notin DOMAIN routes.rec

\* C7: a user message whose sender isBanned reports banned makes no transport
\* call and changes no store key: counters, routing index, related lists,
\* message logs, ticket records, categories and the admin chat stay as they were.
C7_BannedDropped ==
    [][\A u \in Users, failAt \in 0..3 :
        (UserToBot(u, failAt) /\ is_banned(banned_users, u)) =>
            /\ user_to_bot(Cur, u, failAt).calls = NoCalls
            /\ ~user_to_bot(Cur, u, failAt).raised
            /\ UNCHANGED <<storeVars, rateVars, banVars, transportVars>>]_vars

\* a banned sender was dropped while the other user had been counted and relayed
C7_Witness ==
    /\ ev.op = "user" /\ ev.result = "banned" /\ is_banned(banned_users, ev.user)
    /\ counter[ev.user] = Absent /\ related[ev.user] = <<>>
    /\ \E v \in Users : counter[v] # Absent /\ related[v] # <<>>

\* C9: when /ban replies to a message that resolves to conversation C and
\* ban_user returns, the transport calls are exactly one delete_message in the
\* admin chat for each id of get_messages_related_to_user(C) at ban time, in
\* list order, followed by one for the /ban message itself, whichever of these
\* deletes raise.
C9_DeletesAll ==
    \A reply_to \in MsgIds :
        Live(Cur, reply_to) =>
            \A i \in AdminInputs(reply_to, "/ban") :
                LET r == Handled(reply_to, "/ban", i)
                    C == get_origin_chat(Cur, reply_to)
                    ids == get_messages_related_to_user(Cur, C) \o <<nextId>>
                IN  (~i.getFails /\ C # None /\ r.result \in {"banned", "ban_resynced"}) =>
                        /\ Len(r.calls) = Len(ids)
                        /\ \A k \in 1..Len(ids) :
                            /\ r.calls[k].api = "delete_message"
                            /\ r.calls[k].chat = AdminChat
                            /\ r.calls[k].msg = ids[k]
                        /\ \A id \in Range(ids) :
                            Cardinality({k \in 1..Len(r.calls) : r.calls[k].msg = id}) = 1
                        /\ ~r.raised

\* a ticket and two relays of the banned user: a delete raised and a later one
\* went through
C9_Witness ==
    /\ ev.op = "admin" /\ ev.result = "banned"
    /\ cfg.hashtag_messages_in_admin_chat
    /\ Len(related[ev.user]) = 3
    /\ \E a \in 1..3, b \in 1..3 :
        /\ a < b
        /\ ~adminChat[int(related[ev.user][a])].deleted
        /\ adminChat[int(related[ev.user][b])].deleted
    /\ adminChat[nextId - 1].deleted

\* ------------------------------------------------------ ban store failures
\* C11, one call at a time: a ban_user whose rpush raised and whose resync read
\* returned does not raise and leaves the set equal to the ids of the log; one
\* whose resync read raised as well raises and leaves the set as it was.
C11_Sequential ==
    \A u \in Users, rp \in RpushOutcomes \ {"ok"} :
        LET done == ban_user(Cur, u, rp, TRUE)
            failed == ban_user(Cur, u, rp, FALSE)
        IN  /\ ~done.raised
            /\ done.s.banned_users = IntSet(done.s.banLog)
            /\ failed.raised
            /\ failed.s.banned_users = banned_users

\* C11, step by step under interleaving: the call touches the set only by its
\* final assignment, which installs exactly the ids its lrange read from the
\* whole log and returns without raising; a raising lrange ends the call with
\* the error and without an assignment.
C11_Steps ==
    \A t \in Threads :
        /\ BanRpush(t) => banned_users' = banned_users
        /\ BanLrange(t) =>
            /\ banned_users' = banned_users
            /\ \/ threads'[t].pc = "assign" /\ threads'[t].snap = IntSet(banLog)
               \/ threads'[t] = Idle /\ ev'.raised /\ ev'.result = "raised"
        /\ BanAssign(t) =>
            /\ banned_users' = threads[t].snap
            /\ ~ev'.raised /\ threads'[t] = Idle

\* C11: a failed append makes ban_user resync the whole set from the log without
\* raising; a failed resync read propagates and leaves the set untouched.
C11_ResyncOrPropagate == []C11_Sequential /\ [][C11_Steps]_vars

\* a ban whose append reached the log but whose resync read raised: the caller
\* got the error and the set is what it was
C11_Witness ==
    /\ ev.op = "ban" /\ ev.result = "raised" /\ ev.raised
    /\ banned_users # {}
    /\ ev.user \notin banned_users /\ ev.user \in IntSet(banLog)

\* ---------------------------------------------------------- ticket claims
\* the ticket record persisted for relayed message M
Persisted(s, M) == from_store(s.hashtag_for_msg[M])

Unanswered(s, M) ==
    M \in DOMAIN s.hashtag_for_msg /\ UNANSWERED_HASHTAG \in Range(Persisted(s, M).hashtags)

Without(tags, tag) == SelectSeq(tags, LAMBDA x : x # tag)

\* C12: for a relayed message M whose persisted tags contain UNANSWERED,
\* remove_unanswered_hashtag(M) persists under key M the same ticket id and the
\* same tags in the same order with exactly the UNANSWERED tag gone, touching
\* no other key; run again on M it changes nothing and makes no transport call.
C12_MarkAnsweredOnce ==
    \A M \in MsgIds, F1 \in SUBSET {1}, F2 \in SUBSET {1} :
        Unanswered(Cur, M) =>
            LET r1 == remove_unanswered_hashtag(Cur, M, 1, F1)
                r2 == remove_unanswered_hashtag(r1.s, M, 1, F2)
            IN  /\ Persisted(r1.s, M).hashtags = Without(Persisted(Cur, M).hashtags, UNANSWERED_HASHTAG)
                /\ Len(Persisted(r1.s, M).hashtags) = Len(Persisted(Cur, M).hashtags) - 1
                /\ Persisted(r1.s, M).message_id = Persisted(Cur, M).message_id
                /\ DOMAIN r1.s.hashtag_for_msg = DOMAIN hashtag_for_msg
                /\ \A K \in DOMAIN hashtag_for_msg \ {M} :
                        r1.s.hashtag_for_msg[K] = hashtag_for_msg[K]
                /\ r2.s = r1.s
                /\ r2.calls = NoCalls

\* an answered ticket of a user with a category: only the category tag is left,
\* in the record and on the ticket message
C12_Witness ==
    /\ ev.op = "admin" /\ ev.result = "replied"
    /\ \E M \in DOMAIN hashtag_for_msg, c \in Categories :
        /\ Persisted(Cur, M).hashtags = <<"#" \o CategoryNames[c]>>
        /\ adminChat[Persisted(Cur, M).message_id].text = "#" \o CategoryNames[c]
        /\ M \in Range(get_message_log(Cur, ev.user))

\* the ids of the ticket messages the persisted records name
TicketIds == {Persisted(Cur, M).message_id : M \in DOMAIN hashtag_for_msg}

\* C13: remove_unanswered_hashtag on a message whose ticket has UNANSWERED as
\* its only tag persists an empty tag list and makes one transport call, a
\* delete of the ticket message; when other tags remain it makes one call, an
\* edit of the ticket message to the remaining tags joined by spaces.  No ticket
\* message in the admin chat shows an empty tag sequence.
C13_DeleteWhenEmpty ==
    /\ \A M \in MsgIds, F \in SUBSET {1} :
        Unanswered(Cur, M) =>
            LET r == remove_unanswered_hashtag(Cur, M, 1, F)
                rest == Without(Persisted(Cur, M).hashtags, UNANSWERED_HASHTAG)
                tid == Persisted(Cur, M).message_id
            IN  /\ Len(r.calls) = 1
                /\ r.calls[1].chat = AdminChat /\ r.calls[1].msg = tid
                /\ Persisted(r.s, M).hashtags = rest
                /\ rest = <<>> => r.calls[1].api = "delete_message"
                /\ rest # <<>> =>
                    /\ r.calls[1].api = "edit_message_text"
                    /\ r.calls[1].text = Join(rest)
                /\ Live(r.s, tid) => r.s.adminChat[tid].text # ""
    /\ \A tid \in TicketIds : Live(Cur, tid) => adminChat[tid].text # ""

\* a ticket whose only tag was UNANSWERED was answered: its record is empty and
\* its message is gone
C13_Witness ==
    /\ ev.op = "admin" /\ ev.result = "replied"
    /\ \E M \in DOMAIN hashtag_for_msg :
        /\ Persisted(Cur, M).hashtags = <<>>
        /\ adminChat[Persisted(Cur, M).message_id].deleted

\* the category tag user_to_bot requests for user u: <<>> when there is none
RequestedTag(u) ==
    LET cat == IF cfg.has_category_store THEN get_user_category(Cur, u) ELSE None
    IN  IF cat = None THEN <<>> ELSE <<"#" \o CategoryNames[cat]>>

AdminChatPosts(calls) ==
    {k \in 1..Len(calls) : calls[k].api = "send_message" /\ calls[k].chat = AdminChat}

\* C14: for an admitted message with hashtag tickets enabled, user_to_bot reuses
\* the recent ticket (posts no ticket message) iff a recent-ticket record exists
\* and no category tag is requested or the record's tags contain the requested
\* one; otherwise its first call posts one ticket with the tags UNANSWERED and
\* the category tag if any, the ticket's id is appended to the related list and
\* the ticket becomes the recent one; once the relay is made, the ticket used is
\* bound to the relayed message's id.
C14_TicketReusedOrCreated ==
    \A u \in Users, failAt \in 0..3 :
        LET r == user_to_bot(Cur, u, failAt)
            tag == RequestedTag(u)
            recent == get_recent_hashatag_message_for_user(Cur, u)
            reuse == recent # <<>> /\ (tag = <<>> \/ tag[1] \in Range(recent[1].hashtags))
            created == HashtagMessageData(nextId, <<UNANSWERED_HASHTAG>> \o tag)
            used == IF reuse THEN recent[1] ELSE created
            fid == IF reuse THEN nextId ELSE nextId + 1
            prompted == cfg.has_category_store /\ cfg.force_category_selection /\ tag = <<>>
        IN  (cfg.hashtag_messages_in_admin_chat /\ ~prompted /\ r.result \in {"relayed", "raised"}) =>
            /\ reuse =>
                /\ AdminChatPosts(r.calls) = {}
                /\ r.s.recent_hashtag = recent_hashtag
                /\ r.calls[1].api = "forward_message"
            /\ (~reuse /\ failAt # 1) =>
                /\ AdminChatPosts(r.calls) = {1}
                /\ r.calls[1].new = nextId /\ r.calls[1].text = Join(created.hashtags)
                /\ r.s.adminChat[nextId].text = Join(created.hashtags)
                /\ SubSeq(r.s.related[u], 1, Len(related[u]) + 1) = Append(related[u], str(nextId))
                /\ get_recent_hashatag_message_for_user(r.s, u) = <<created>>
                /\ r.calls[2].api = "forward_message"
            /\ r.result = "relayed" =>
                /\ r.s.nextId = fid + 1
                /\ get_origin_chat(r.s, fid) = u
                /\ fid \in DOMAIN r.s.hashtag_for_msg
                /\ Persisted(r.s, fid) = used

\* a user who changed category got a second ticket; both relays are bound to
\* their own ticket
C14_Witness ==
    /\ ev.op = "user" /\ ev.result = "relayed"
    /\ Len(related[ev.user]) = 4
    /\ \E M1 \in DOMAIN hashtag_for_msg, M2 \in DOMAIN hashtag_for_msg :
        /\ M1 < M2
        /\ Persisted(Cur, M1).message_id # Persisted(Cur, M2).message_id
        /\ Len(Persisted(Cur, M1).hashtags) = 2 /\ Len(Persisted(Cur, M2).hashtags) = 2
        /\ get_recent_hashatag_message_for_user(Cur, ev.user) = <<Persisted(Cur, M2)>>

\* ------------------------------------------------------- handler failures
\* C15 as stated: no exception leaves admin_to_bot, whichever store or transport
\* calls fail, the call that reports the error to the operator included.
C15_NothingEscapes == ev.op = "admin" => ~ev.raised

\* C16 as stated: with a category store and force_category_selection, a message
\* of a sender who is not banned, is admitted by the rate limiter and has no
\* stored category ends in the category prompt: nothing is posted to the admin
\* chat and no record is written, with or without hashtag tickets.
C16_PromptedNotRelayed ==
    \A u \in Users, failAt \in 0..3 :
        LET r == user_to_bot(Cur, u, failAt)
        IN  (/\ cfg.has_category_store /\ cfg.force_category_selection
             /\ ~is_banned(banned_users, u)
             /\ accept_message_from(cfg, counter, violations, u).res = "NOW"
             /\ get_user_category(Cur, u) = None) =>
                /\ r.result = "needs_category"
                /\ \A k \in 1..Len(r.calls) : r.calls[k].chat = u
                /\ r.s = Cur

\* the calls of an invocation that forward a user's message into the admin chat
Forwards(calls) ==
    {k \in 1..Len(calls) : calls[k].api = "forward_message" /\ calls[k].chat = AdminChat}

Acks(calls) == {k \in 1..Len(calls) : calls[k].note = "forwarded_to_admin_ok"}

\* C17: when the forward of an admitted user message raises, user_to_bot writes
\* no origin mapping, appends nothing to the message log, appends no relayed
\* message to the related list (at most the id of a ticket posted before the
\* forward), writes no ticket-for-message record and sends no acknowledgment;
\* and an acknowledgment is sent only as the call after a forward that returned,
\* with the origin mapping, the related entry and the log entry of the relayed
\* message written.
C17_NoRecordWithoutRelay ==
    \A u \in Users, failAt \in 0..3 :
        LET r == user_to_bot(Cur, u, failAt)
            fwd == Forwards(r.calls)
        IN  /\ \A k \in fwd : ~r.calls[k].ok =>
                /\ r.raised /\ k = Len(r.calls)
                /\ r.s.origin = origin
                /\ r.s.msglog = msglog
                /\ r.s.hashtag_for_msg = hashtag_for_msg
                /\ Acks(r.calls) = {}
                /\ \/ r.s.related = related
                   \/ /\ k = 2 /\ r.calls[1].api = "send_message"
                      /\ r.s.related = [related EXCEPT ![u] = Append(@, str(r.calls[1].new))]
            /\ \A a \in Acks(r.calls) :
                /\ a - 1 \in fwd /\ r.calls[a - 1].ok
                /\ LET fid == r.calls[a - 1].new
                   IN  /\ get_origin_chat(r.s, fid) = u
                       /\ get_messages_related_to_user(r.s, u) =
                              get_messages_related_to_user(Cur, u)
                              \o (IF a = 3 THEN <<r.calls[1].new>> ELSE <<>>) \o <<fid>>
                       /\ get_message_log(r.s, u) = Append(get_message_log(Cur, u), fid)

\* a ticket was posted for the user, then the forward raised: the ticket is
\* in the related list and nothing else was recorded
C17_Witness ==
    /\ ev.op = "user" /\ ev.result = "raised" /\ ev.raised
    /\ cfg.hashtag_messages_in_admin_chat
    /\ Len(related[ev.user]) = 1
    /\ msglog[ev.user] = <<>>
    /\ \A m \in DOMAIN origin : int(origin[m]) # ev.user
    /\ hashtag_for_msg = <<>>

\* C18 as stated: a raising transport call of user_to_bot other than the forward
\* (the ticket post, the throttling notice, the category prompt) does not make
\* user_to_bot raise, and after a failed ticket post the message is still
\* forwarded and its origin mapping written.
C18_OtherFailuresSwallowed ==
    \A u \in Users, failAt \in 0..3 :
        LET r == user_to_bot(Cur, u, failAt)
        IN  \A k \in 1..Len(r.calls) :
                (/\ ~r.calls[k].ok
                 /\ \/ r.calls[k].api = "send_message"
                    \/ r.calls[k].note \in {"throttling", "select_category"}) =>
                    /\ ~r.raised
                    /\ r.calls[k].api = "send_message" =>
                        \E f \in Forwards(r.calls) :
                            r.calls[f].ok /\ get_origin_chat(r.s, r.calls[f].new) = u

\* the redis keys of the relay in state s
Stored(s) ==
    <<s.origin, s.related, s.msglog, s.hashtag_for_msg, s.recent_hashtag, s.category>>

\* C19: when the edit or delete of the ticket message raises inside
\* remove_unanswered_hashtag, admin_to_bot still ends normally (no exception, no
\* error report to the operator) and the tags without UNANSWERED are persisted
\* under the relayed message id: the redis keys after the failed call equal the
\* redis keys after a successful one.
C19_TicketErrorSwallowed ==
    \A reply_to \in MsgIds, kind \in SUPPORTED_CONTENT_TYPES :
        (Live(Cur, reply_to) /\ Unanswered(Cur, reply_to) /\ get_origin_chat(Cur, reply_to) # None) =>
            LET good == admin_to_bot(Arrived, nextId, reply_to, kind, {}, FALSE, "ok", TRUE)
                bad == admin_to_bot(Arrived, nextId, reply_to, kind, {3}, FALSE, "ok", TRUE)
            IN  /\ bad.result = "replied" /\ ~bad.raised
                /\ Len(bad.calls) = 3 /\ ~bad.calls[3].ok
                /\ bad.calls[3].api \in {"edit_message_text", "delete_message"}
                /\ \A k \in 1..3 : bad.calls[k].note # "somethings_wrong"
                /\ ~Unanswered(bad.s, reply_to)
                /\ Persisted(bad.s, reply_to).hashtags =
                       Without(Persisted(Cur, reply_to).hashtags, UNANSWERED_HASHTAG)
                /\ Stored(bad.s) = Stored(good.s)

\* a reply went through while the ticket update raised: the record has lost
\* UNANSWERED, the ticket message still shows it
C19_Witness ==
    /\ ev.op = "admin" /\ ev.result = "replied" /\ ~ev.raised
    /\ \E M \in DOMAIN hashtag_for_msg :
        LET tid == Persisted(Cur, M).message_id
        IN  /\ ~Unanswered(Cur, M)
            /\ Live(Cur, tid)
            /\ adminChat[tid].text = Join(<<UNANSWERED_HASHTAG>> \o Persisted(Cur, M).hashtags)
            /\ msglog[ev.user] # <<>>

TicketCalls(calls) ==
    {k \in 1..Len(calls) : calls[k].api \in {"edit_message_text", "delete_message"}}

CopiedAcks(calls) == {k \in 1..Len(calls) : calls[k].note = "copied_to_user_ok"}

\* C20: an ordinary reply that resolves to conversation C first copies the
\* content to C, then appends its id to C's message log, then acknowledges to
\* the operator, then marks the ticket answered, each step only after the
\* earlier ones went through: a raising copy leaves the log, the ticket record
\* and the ticket message as they were and sends no acknowledgment; a raising
\* acknowledgment leaves the ticket unanswered; and a ticket that lost its
\* UNANSWERED tag had its reply copied and acknowledged.
C20_ReplyStepsInOrder ==
    \A reply_to \in MsgIds, kind \in SUPPORTED_CONTENT_TYPES :
        (Live(Cur, reply_to) /\ get_origin_chat(Cur, reply_to) # None) =>
            \A F \in SUBSET (1..3) :
                LET C == get_origin_chat(Cur, reply_to)
                    r == admin_to_bot(Arrived, nextId, reply_to, kind, F, FALSE, "ok", TRUE)
                    kept == /\ r.s.hashtag_for_msg = hashtag_for_msg
                            /\ r.s.adminChat = Arrived.adminChat
                            /\ TicketCalls(r.calls) = {}
                IN  /\ r.calls[1] = copy_message_to_chat(C, kind, 1 \notin F)
                    /\ 1 \in F =>
                        /\ r.s = Arrived
                        /\ CopiedAcks(r.calls) = {}
                        /\ kept
                    /\ 1 \notin F =>
                        /\ get_message_log(r.s, C) = Append(get_message_log(Cur, C), nextId)
                        /\ CopiedAcks(r.calls) = {2}
                        /\ 2 \in F => kept
                        /\ (2 \notin F /\ Unanswered(Cur, reply_to)) =>
                            /\ TicketCalls(r.calls) = {3}
                            /\ ~Unanswered(r.s, reply_to)
                    /\ (Unanswered(Cur, reply_to) /\ ~Unanswered(r.s, reply_to)) =>
                        /\ r.calls[1].ok /\ r.calls[2].ok
                        /\ nextId \in Range(get_message_log(r.s, C))

\* a reply whose copy to the user raised: it was reported, the log holds only
\* the relayed message and the ticket is still unanswered
C20_Witness ==
    /\ ev.op = "admin" /\ ev.result = "copy_failed"
    /\ Len(msglog[ev.user]) = 1
    /\ Unanswered(Cur, int(msglog[ev.user][1]))
    /\ Live(Cur, Persisted(Cur, int(msglog[ev.user][1])).message_id)
    /\ nextId = 4

AwaitingRelay(u) ==
    {t \in Threads : /\ threads[t].user = u /\ threads[t].pc \in {"expire", "relay"}
                     /\ threads[t].snap.live /\ WithinCap(cfg, threads[t].snap.count)}

C23_RelatedCoversOrigins ==
    \A m \in DOMAIN origin :
        m \in Range(get_messages_related_to_user(Cur, get_origin_chat(Cur, m)))

\* ------------------------------------------------ ticket display claims
\* C24: with hashtag tickets enabled and no transport failure, for every relayed
\* user message that no admin has replied to yet (when no call fails these are the
\* messages whose persisted tags still hold UNANSWERED: only an admin's reply to
\* the message takes the tag out of its record), the ticket bound to it is still
\* in the admin chat and the text it displays is the persisted tag sequence of
\* the message, UNANSWERED included.  This covers a message relayed while the
\* recent-ticket record of an answered ticket is still held.
C24_TicketShowsUnanswered ==
    cfg.hashtag_messages_in_admin_chat =>
        \A M \in DOMAIN hashtag_for_msg :
            Unanswered(Cur, M) =>
                /\ Live(Cur, Persisted(Cur, M).message_id)
                /\ adminChat[Persisted(Cur, M).message_id].text
                       = Join(Persisted(Cur, M).hashtags)

\* ------------------------------------------------ ticket opening claims
\* the ticket messages posted for user u
TicketsPosted(u) ==
    {m \in DOMAIN adminChat :
        /\ adminChat[m].text # ""
        /\ \/ m \in Range(get_messages_related_to_user(Cur, u))
           \/ \E t \in Threads : /\ threads[t].user = u /\ threads[t].pc = "save_ticket"
                                 /\ threads[t].snap.data[1].message_id = m}

\* the tickets the relayed messages of user u are bound to
TicketsBound(u) ==
    {Persisted(Cur, M).message_id :
        M \in {m \in DOMAIN hashtag_for_msg : get_origin_chat(Cur, m) = u}}

\* C25: when admitted messages of one conversation with no category are handled
\* concurrently while no recent-ticket record exists (none expires here, so that
\* handled one after the other they share one ticket), at most one new ticket
\* message is posted for them and the relayed messages are bound to one ticket
C25_OneTicketOpened ==
    \A u \in Users :
        /\ Cardinality(TicketsPosted(u)) <= 1
        /\ Cardinality(TicketsBound(u)) <= 1

====
